---- MODULE Spec2Model ----
(***************************************************************************)
(* DVFS frequency-limit arbitration of kernel/power/main.c                 *)
(* (CONFIG_DVFS_LIMIT): the cpufreq_max_limit / cpufreq_min_limit sysfs    *)
(* stores, the table lookup get_cpufreq_level and the cpufreq policy       *)
(* notifier dvfs_cpufreq_notifier.                                         *)
(*                                                                         *)
(* 32-bit values are written as their two's-complement signed reading, so  *)
(* an unsigned int holding 0xFFFFFFFF is written -1 and 0xFFFFFFFE is -2.  *)
(* A conversion between int and unsigned int keeps the bit pattern; what   *)
(* changes is the comparison, which is ULt/ULe/UGt/UGe for unsigned        *)
(* operands and <, > for int operands.                                     *)
(***************************************************************************)
EXTENDS Integers, Sequences, FiniteSets, TLC

(* ------------------------------ bounds --------------------------------- *)
\* table frequencies are drawn from 1..MaxFreq
MaxFreq == 3
\* a frequency table has 1..MaxTableLen entries before CPUFREQ_TABLE_END
MaxTableLen == 2

(* ---------------------------- constants -------------------------------- *)
VALID_LEVEL == 1
DVFS_MIN_LOCK_REQ == 0
DVFS_MAX_LOCK_REQ == 1
\* ~0 as unsigned int
CPUFREQ_ENTRY_INVALID == -1
\* PRCMU_QOS_DEFAULT_VALUE of <linux/mfd/dbx500-prcmu.h>
PRCMU_QOS_DEFAULT_VALUE == -1

CPUFREQ_ADJUST == "CPUFREQ_ADJUST"
CPUFREQ_INCOMPATIBLE == "CPUFREQ_INCOMPATIBLE"
CPUFREQ_NOTIFY == "CPUFREQ_NOTIFY"
Events == {CPUFREQ_ADJUST, CPUFREQ_INCOMPATIBLE, CPUFREQ_NOTIFY}
NOTIFY_DONE == 0
EINVAL == 22

(* ------------------------- unsigned comparison ------------------------- *)
\* a < b for two unsigned int operands given by their signed readings
ULt(a, b) == IF (a >= 0) = (b >= 0) THEN a < b ELSE b < 0
ULe(a, b) == a = b \/ ULt(a, b)
UGt(a, b) == ULt(b, a)
UGe(a, b) == ULe(b, a)

SetMin(S) == CHOOSE x \in S : \A y \in S : x <= y
SetMax(S) == CHOOSE x \in S : \A y \in S : x >= y

(* --------------------------- frequency tables -------------------------- *)
Freqs == 1..MaxFreq
\* the two cores of the platform; CPU 0 is the boot CPU
CPUs == {0, 1}

\* The tables a cpufreq driver hands out: valid frequencies ascending (the
\* order both scans of get_cpufreq_level and table[table_length-1] in the
\* notifier rely on), CPUFREQ_ENTRY_INVALID entries anywhere between them.
IsTable(t) ==
    /\ \E i \in 1..Len(t) : t[i] # CPUFREQ_ENTRY_INVALID
    /\ \A i, j \in 1..Len(t) :
          (i < j /\ t[i] # CPUFREQ_ENTRY_INVALID /\ t[j] # CPUFREQ_ENTRY_INVALID)
             => t[i] < t[j]

Tables ==
    UNION { {t \in [1..n -> Freqs \cup {CPUFREQ_ENTRY_INVALID}] : IsTable(t)}
             : n \in 1..MaxTableLen }

ValidFreqs(t) == {t[i] : i \in 1..Len(t)} \ {CPUFREQ_ENTRY_INVALID}
HighestValid(t) == SetMax(ValidFreqs(t))

\* request values written to the sysfs files: the unlock request, values
\* below it, values on, between, below and above the table's frequencies
ReqVals == -2..(MaxFreq + 1)

VARIABLES
    cpufreq_max_limit_val,  \* int, -1 when unlocked
    cpufreq_min_limit_val,  \* int, -1 when unlocked
    min_replacement,        \* int used as a flag, 0 or 1
    qos,                    \* the "power" requirement on PRCMU_QOS_ARM_KHZ
    table,                  \* CPU 0's frequency table, without its end marker
    table_ready,            \* cpufreq_frequency_get_table(0) is not NULL
    online,                 \* the online CPUs
    notified,               \* the policy notifier calls of the last step
    last,                   \* the last call made and what it did
    pc,                     \* where each writer thread is in its store
    req,                    \* the store each writer thread is running
    reg,                    \* each writer thread's locals
    base                    \* the arbitration state when the stores began

vars == <<cpufreq_max_limit_val, cpufreq_min_limit_val, min_replacement, qos,
          table, table_ready, online, notified, last, pc, req, reg, base>>

\* the variables of the writer threads
tvars == <<pc, req, reg, base>>

\* Two processes writing to the sysfs files at once.  Nothing in the stores
\* or in the attribute layer above them serialises writes made through
\* different open files.
Threads == {1, 2}

\* the arbitration state as one record
Arb == [max |-> cpufreq_max_limit_val, min |-> cpufreq_min_limit_val,
        repl |-> min_replacement, qos |-> qos]

(* ------------------------------ lookups -------------------------------- *)
\* get_cpufreq_level(freq, &level, req_type): ret is VALID_LEVEL or EINVAL,
\* level is *level (written only on VALID_LEVEL; no caller reads it).
\* freq is the request converted to unsigned int.
\* get_cpufreq_level with the comparison of its DVFS_MAX_LOCK_REQ scan turned
\* round (>= for <=)
get_cpufreq_level_max_ge(freq, req_type) ==
    IF ~table_ready THEN [ret |-> -EINVAL, level |-> 0]
    ELSE IF req_type = DVFS_MIN_LOCK_REQ THEN
        LET hits == {i \in 1..Len(table) : UGe(table[i], freq)}
        IN  IF hits # {}
            THEN [ret |-> VALID_LEVEL, level |-> table[SetMin(hits)]]
            ELSE [ret |-> -EINVAL, level |-> 0]
    ELSE
        LET hits == {i \in 1..Len(table) : UGe(table[i], freq)}
        IN  IF hits # {}
            THEN [ret |-> VALID_LEVEL, level |-> table[SetMax(hits)]]
            ELSE [ret |-> -EINVAL, level |-> 0]

get_cpufreq_level(freq, req_type) ==
    IF ~table_ready THEN [ret |-> -EINVAL, level |-> 0]
    ELSE IF req_type = DVFS_MIN_LOCK_REQ THEN
        \* for (i = 0; table[i].frequency != CPUFREQ_TABLE_END; i++)
        \*     if (table[i].frequency >= freq)
        LET hits == {i \in 1..Len(table) : UGe(table[i], freq)}
        IN  IF hits # {}
            THEN [ret |-> VALID_LEVEL, level |-> table[SetMin(hits)]]
            ELSE [ret |-> -EINVAL, level |-> 0]
    ELSE
        \* for (i = table_length-1; i >= 0; i--)
        \*     if (table[i].frequency <= freq)
        LET hits == {i \in 1..Len(table) : ULe(table[i], freq)}
        IN  IF hits # {}
            THEN [ret |-> VALID_LEVEL, level |-> table[SetMax(hits)]]
            ELSE [ret |-> -EINVAL, level |-> 0]

(* ------------------------------ notifier ------------------------------- *)
\* dvfs_cpufreq_notifier(nb, event, data) on a policy whose max is pmax,
\* reading limit as cpufreq_max_limit_val: the return value and policy->max
\* afterwards.
dvfs_cpufreq_notifier(event, pmax, limit) ==
    IF event # CPUFREQ_ADJUST THEN [ret |-> NOTIFY_DONE, max |-> pmax]
    ELSE IF ~table_ready THEN [ret |-> -EINVAL, max |-> pmax]
    ELSE IF limit # -1 /\ UGt(pmax, limit) THEN [ret |-> NOTIFY_DONE, max |-> limit]
    ELSE IF limit = -1 THEN [ret |-> NOTIFY_DONE, max |-> table[Len(table)]]
    ELSE [ret |-> NOTIFY_DONE, max |-> pmax]

\* One call of the notifier, as the cpufreq core makes it: on a policy of
\* cpu that arrives with policy->max = pmax_in; pmax_out is the policy->max
\* the core goes on with.
Notified(event, cpu, pmax_in, limit) ==
    LET r == dvfs_cpufreq_notifier(event, pmax_in, limit)
    IN  [event |-> event, cpu |-> cpu, pmax_in |-> pmax_in,
         pmax_out |-> r.max, ret |-> r.ret]

\* cpufreq_update_policy(cpu): the cpufreq core copies the CPU's policy,
\* resets the copy's ceiling to the user policy's and passes it through the
\* CPUFREQ_ADJUST notifiers before installing it.  The user policy's ceiling
\* is the one the core starts it with, cpuinfo.max_freq, the table's highest
\* valid frequency; PolicyNotify covers every other incoming ceiling.
cpufreq_update_policy(cpu, limit) ==
    Notified(CPUFREQ_ADJUST, cpu, HighestValid(table), limit)

(* ------------------------------- stores -------------------------------- *)
\* What is written to a sysfs file: n is its byte count, nconv is what
\* sscanf(buf, "%d", &val) returns for it, val the integer it converts.
\* The texts are the decimal numerals of ReqVals and one text that is no
\* numeral, each followed by a newline.
Bufs ==
    {[n |-> IF v < 0 THEN 3 ELSE 2, nconv |-> 1, val |-> v] : v \in ReqVals}
       \cup {[n |-> 2, nconv |-> 0, val |-> 0]}

\* The outcome of a store on arbitration state s: the new state, the values
\* pushed by prcmu_qos_update_requirement in order, whether the
\* for_each_online_cpu / cpufreq_update_policy loop ran, the branch taken
\* and the return value.
Outcome(s, pushed, update, branch, ret) ==
    [max |-> s.max, min |-> s.min, repl |-> s.repl,
     qos |-> IF pushed = <<>> THEN s.qos ELSE pushed[Len(pushed)],
     pushed |-> pushed, update |-> update, branch |-> branch, ret |-> ret]

\* max_unlock that leaves the replacement flag set after restoring the
\* requirement
max_unlock_keeps_flag(s, buf) ==
    IF s.max # -1 THEN
        IF s.repl # 0 /\ s.min # -1
        THEN Outcome([s EXCEPT !.max = -1], <<s.min>>, TRUE, "unlock", buf.n)
        ELSE Outcome([s EXCEPT !.max = -1], <<>>, TRUE, "unlock", buf.n)
    ELSE Outcome(s, <<>>, FALSE, "ignored", buf.n)

\* max_unlock with the for_each_online_cpu loop moved out of the
\* "cpufreq_max_limit_val != -1" branch
max_unlock_always_updates(s, buf) ==
    IF s.max # -1 THEN
        IF s.repl # 0 /\ s.min # -1
        THEN Outcome([s EXCEPT !.max = -1, !.repl = 0],
                     <<s.min>>, TRUE, "unlock", buf.n)
        ELSE Outcome([s EXCEPT !.max = -1], <<>>, TRUE, "unlock", buf.n)
    ELSE Outcome(s, <<>>, TRUE, "ignored", buf.n)

\* lines 488-506: the unlock request of cpufreq_max_limit_store
max_unlock(s, buf) ==
    IF s.max # -1 THEN
        IF s.repl # 0 /\ s.min # -1
        THEN Outcome([s EXCEPT !.max = -1, !.repl = 0],
                     <<s.min>>, TRUE, "unlock", buf.n)
        ELSE Outcome([s EXCEPT !.max = -1], <<>>, TRUE, "unlock", buf.n)
    ELSE Outcome(s, <<>>, FALSE, "ignored", buf.n)

\* max_lock that stores and pushes the level the table resolves the request
\* to instead of the request
max_lock_stores_level(s, buf) ==
    LET r == get_cpufreq_level(buf.val, DVFS_MAX_LOCK_REQ)
    IN  IF r.ret = VALID_LEVEL THEN
            IF s.min # -1 /\ s.min > r.level
            THEN Outcome([s EXCEPT !.max = r.level, !.repl = 1],
                         <<r.level>>, TRUE, "lock", buf.n)
            ELSE Outcome([s EXCEPT !.max = r.level], <<>>, TRUE, "lock", buf.n)
        ELSE Outcome(s, <<>>, FALSE, "invalid", buf.n)

\* max_lock that pushes the ceiling on a conflict but does not set the
\* replacement flag
max_lock_no_flag(s, buf) ==
    IF get_cpufreq_level(buf.val, DVFS_MAX_LOCK_REQ).ret = VALID_LEVEL THEN
        IF s.min # -1 /\ s.min > buf.val
        THEN Outcome([s EXCEPT !.max = buf.val], <<buf.val>>, TRUE, "lock", buf.n)
        ELSE Outcome([s EXCEPT !.max = buf.val], <<>>, TRUE, "lock", buf.n)
    ELSE Outcome(s, <<>>, FALSE, "invalid", buf.n)

\* lines 507-533: the lock request of cpufreq_max_limit_store
max_lock(s, buf) ==
    IF get_cpufreq_level(buf.val, DVFS_MAX_LOCK_REQ).ret = VALID_LEVEL THEN
        IF s.min # -1 /\ s.min > buf.val
        THEN Outcome([s EXCEPT !.max = buf.val, !.repl = 1],
                     <<buf.val>>, TRUE, "lock", buf.n)
        ELSE Outcome([s EXCEPT !.max = buf.val], <<>>, TRUE, "lock", buf.n)
    ELSE Outcome(s, <<>>, FALSE, "invalid", buf.n)

max_limit_store(s, buf) ==
    IF buf.nconv # 1 THEN Outcome(s, <<>>, FALSE, "format", -EINVAL)
    ELSE IF buf.val = -1 THEN max_unlock(s, buf)
    ELSE max_lock(s, buf)

\* min_unlock that leaves the replacement flag set
min_unlock_keeps_flag(s, buf) ==
    IF s.min # -1
    THEN Outcome([s EXCEPT !.min = -1],
                 <<PRCMU_QOS_DEFAULT_VALUE>>, FALSE, "unlock", buf.n)
    ELSE Outcome(s, <<>>, FALSE, "ignored", buf.n)

\* lines 561-574: the unlock request of cpufreq_min_limit_store
min_unlock(s, buf) ==
    IF s.min # -1
    THEN Outcome([s EXCEPT !.min = -1, !.repl = 0],
                 <<PRCMU_QOS_DEFAULT_VALUE>>, FALSE, "unlock", buf.n)
    ELSE Outcome(s, <<>>, FALSE, "ignored", buf.n)

\* min_lock that pushes the new floor, not the ceiling, on a conflict
min_lock_pushes_min(s, buf) ==
    IF get_cpufreq_level(buf.val, DVFS_MIN_LOCK_REQ).ret = VALID_LEVEL THEN
        IF s.max # -1 /\ buf.val > s.max
        THEN Outcome([s EXCEPT !.min = buf.val, !.repl = 1],
                     <<buf.val>>, FALSE, "lock", buf.n)
        ELSE Outcome([s EXCEPT !.min = buf.val], <<buf.val>>, FALSE, "lock", buf.n)
    ELSE Outcome(s, <<>>, FALSE, "invalid", buf.n)

\* min_lock that stores the request before looking it up, so that a request
\* the table rejects is kept
min_lock_stores_first(s, buf) ==
    IF get_cpufreq_level(buf.val, DVFS_MIN_LOCK_REQ).ret = VALID_LEVEL THEN
        IF s.max # -1 /\ buf.val > s.max
        THEN Outcome([s EXCEPT !.min = buf.val, !.repl = 1],
                     <<s.max>>, FALSE, "lock", buf.n)
        ELSE Outcome([s EXCEPT !.min = buf.val], <<buf.val>>, FALSE, "lock", buf.n)
    ELSE Outcome([s EXCEPT !.min = buf.val], <<>>, FALSE, "invalid", buf.n)

\* lines 575-601: the lock request of cpufreq_min_limit_store
min_lock(s, buf) ==
    IF get_cpufreq_level(buf.val, DVFS_MIN_LOCK_REQ).ret = VALID_LEVEL THEN
        IF s.max # -1 /\ buf.val > s.max
        THEN Outcome([s EXCEPT !.min = buf.val, !.repl = 1],
                     <<s.max>>, FALSE, "lock", buf.n)
        ELSE Outcome([s EXCEPT !.min = buf.val], <<buf.val>>, FALSE, "lock", buf.n)
    ELSE Outcome(s, <<>>, FALSE, "invalid", buf.n)

min_limit_store(s, buf) ==
    IF buf.nconv # 1 THEN Outcome(s, <<>>, FALSE, "format", -EINVAL)
    ELSE IF buf.val = -1 THEN min_unlock(s, buf)
    ELSE min_lock(s, buf)

(* -------------------------------- shows -------------------------------- *)
\* sprintf(buf, "%d\n", v): the text as a sequence of characters
DigitChars == <<"0", "1", "2", "3", "4", "5", "6", "7", "8", "9">>

RECURSIVE Decimal(_)
Decimal(n) ==
    IF n < 10 THEN <<DigitChars[n + 1]>>
    ELSE Append(Decimal(n \div 10), DigitChars[(n % 10) + 1])

sprintf_d(v) ==
    (IF v < 0 THEN <<"-">> ELSE <<>>) \o Decimal(IF v < 0 THEN -v ELSE v) \o <<"\n">>

\* max_limit_show that prints the level the table resolves the stored value
\* to
max_limit_show_level(s) ==
    IF s.max = -1 THEN sprintf_d(s.max)
    ELSE sprintf_d(get_cpufreq_level(s.max, DVFS_MAX_LOCK_REQ).level)

\* line 471: sprintf(buf, "%d\n", cpufreq_max_limit_val)
max_limit_show(s) == sprintf_d(s.max)

\* line 544: sprintf(buf, "%d\n", cpufreq_min_limit_val)
min_limit_show(s) == sprintf_d(s.min)

(* ------------------------------ history -------------------------------- *)
\* The record of a call: the function, its argument (a store's buf), what it
\* did, and the arbitration state it started from.
NoBuf == [n |-> 0, nconv |-> 0, val |-> 0]

Called(fn, buf, ret, branch, pushed, update) ==
    [fn |-> fn, buf |-> buf, ret |-> ret, branch |-> branch, pushed |-> pushed,
     update |-> update, pre |-> Arb, out |-> <<>>]

\* the record of a show: out is the text it wrote, ret its return value
Shown(fn, text) ==
    [Called(fn, NoBuf, Len(text), "", <<>>, FALSE) EXCEPT !.out = text]

\* the ceilings a policy can arrive with: the range of the table's valid
\* frequencies (cpuinfo.min_freq .. cpuinfo.max_freq)
PolicyCeilings(t) == SetMin(ValidFreqs(t))..SetMax(ValidFreqs(t))

\* a writer thread that runs no store
NoReq == [fn |-> "", buf |-> NoBuf]
\* todo: the CPUs a thread's for_each_online_cpu loop has still to visit;
\* after: where the thread goes on after the loop
NoReg == [todo |-> {}, after |-> ""]

(* ----------------------------- initial state --------------------------- *)
\* Lines 327-329 and pm_init: both bounds unlocked, no replacement, the
\* "power" requirement added with the default value.  pm_init runs before
\* any cpufreq driver has published CPU 0's table.
Init ==
    /\ cpufreq_max_limit_val = -1
    /\ cpufreq_min_limit_val = -1
    /\ min_replacement = 0
    /\ qos = PRCMU_QOS_DEFAULT_VALUE
    /\ table \in Tables
    /\ table_ready = FALSE
    /\ online = {0}
    /\ notified = {}
    /\ last = [fn |-> "pm_init", buf |-> NoBuf, ret |-> 0, branch |-> "",
               pushed |-> <<>>, update |-> FALSE,
               pre |-> [max |-> -1, min |-> -1, repl |-> 0,
                        qos |-> PRCMU_QOS_DEFAULT_VALUE],
               out |-> <<>>]
    /\ pc = [t \in Threads |-> "idle"]
    /\ req = [t \in Threads |-> NoReq]
    /\ reg = [t \in Threads |-> NoReg]
    /\ base = [max |-> -1, min |-> -1, repl |-> 0, qos |-> PRCMU_QOS_DEFAULT_VALUE]

(* ------------------------------- actions ------------------------------- *)
\* Installs a store's outcome o.  Both branches of cpufreq_max_limit_store write the limit before their
\* for_each_online_cpu loop, so every notifier call of the loop reads the
\* new cpufreq_max_limit_val.
Install(fn, buf, o) ==
    /\ cpufreq_max_limit_val' = o.max
    /\ cpufreq_min_limit_val' = o.min
    /\ min_replacement' = o.repl
    /\ qos' = o.qos
    /\ notified' = IF o.update
                   THEN {cpufreq_update_policy(c, o.max) : c \in online}
                   ELSE {}
    /\ last' = Called(fn, buf, o.ret, o.branch, o.pushed, o.update)
    /\ UNCHANGED <<table, table_ready, online>>
    /\ UNCHANGED tvars

\* a write to /sys/power/cpufreq_max_limit
cpufreq_max_limit_store ==
    \E buf \in Bufs :
        Install("cpufreq_max_limit_store", buf, max_limit_store(Arb, buf))

\* a write to /sys/power/cpufreq_min_limit
cpufreq_min_limit_store ==
    \E buf \in Bufs :
        Install("cpufreq_min_limit_store", buf, min_limit_store(Arb, buf))

\* a read of /sys/power/cpufreq_max_limit
cpufreq_max_limit_show ==
    /\ notified' = {}
    /\ last' = Shown("cpufreq_max_limit_show", max_limit_show(Arb))
    /\ UNCHANGED <<cpufreq_max_limit_val, cpufreq_min_limit_val, min_replacement,
                   qos, table, table_ready, online>>
    /\ UNCHANGED tvars

\* a read of /sys/power/cpufreq_min_limit
cpufreq_min_limit_show ==
    /\ notified' = {}
    /\ last' = Shown("cpufreq_min_limit_show", min_limit_show(Arb))
    /\ UNCHANGED <<cpufreq_max_limit_val, cpufreq_min_limit_val, min_replacement,
                   qos, table, table_ready, online>>
    /\ UNCHANGED tvars

\* a notifier that writes the ceiling it leaves back into
\* cpufreq_max_limit_val
PolicyNotify_stores_ceiling ==
    \E event \in Events : \E cpu \in online : \E pmax_in \in PolicyCeilings(table) :
        /\ notified' = {Notified(event, cpu, pmax_in, cpufreq_max_limit_val)}
        /\ cpufreq_max_limit_val' =
              dvfs_cpufreq_notifier(event, pmax_in, cpufreq_max_limit_val).max
        /\ last' = Called("dvfs_cpufreq_notifier", NoBuf, 0, "", <<>>, FALSE)
        /\ UNCHANGED <<cpufreq_min_limit_val,
                       min_replacement, qos, table, table_ready, online>>
        /\ UNCHANGED tvars

\* The cpufreq core recomputes the policy of an online CPU for a reason of
\* its own (governor change, hotplug, a write to scaling_max_freq) and calls
\* the policy notifier chain with event on the candidate policy.
PolicyNotify ==
    \E event \in Events : \E cpu \in online : \E pmax_in \in PolicyCeilings(table) :
        /\ notified' = {Notified(event, cpu, pmax_in, cpufreq_max_limit_val)}
        /\ last' = Called("dvfs_cpufreq_notifier", NoBuf, 0, "", <<>>, FALSE)
        /\ UNCHANGED <<cpufreq_max_limit_val, cpufreq_min_limit_val,
                       min_replacement, qos, table, table_ready, online>>
        /\ UNCHANGED tvars

\* The cpufreq driver publishes CPU 0's frequency table, which is what
\* cpufreq_frequency_get_table(0) returns from then on.
TableGetAttr ==
    /\ ~table_ready
    /\ table_ready' = TRUE
    /\ notified' = {}
    /\ last' = Called("table_get_attr", NoBuf, 0, "", <<>>, FALSE)
    /\ UNCHANGED <<cpufreq_max_limit_val, cpufreq_min_limit_val, min_replacement,
                   qos, table, online>>
    /\ UNCHANGED tvars

\* a secondary CPU goes online or offline
Hotplug ==
    \E cpu \in CPUs \ {0} :
        /\ online' = IF cpu \in online THEN online \ {cpu} ELSE online \cup {cpu}
        /\ notified' = {}
        /\ last' = Called(IF cpu \in online THEN "cpu_down" ELSE "cpu_up",
                          NoBuf, 0, "", <<>>, FALSE)
        /\ UNCHANGED <<cpufreq_max_limit_val, cpufreq_min_limit_val,
                       min_replacement, qos, table, table_ready>>
        /\ UNCHANGED tvars

Next ==
    \/ cpufreq_max_limit_store
    \/ cpufreq_min_limit_store
    \/ cpufreq_max_limit_show
    \/ cpufreq_min_limit_show
    \/ PolicyNotify
    \/ TableGetAttr
    \/ Hotplug

Spec == Init /\ [][Next]_vars

(* --------------------------- concurrent writers ------------------------ *)
\* The stores again, one access to the shared variables at a time.  A step
\* is one statement of the source; a condition reads its operands in one
\* step; every later use of a global reads it again, as the source text does.
\* Each behaviour of SpecConc is an interleaving the two stores allow, since
\* they take no lock.

\* the requests of the writer threads: frequency requests and the unlock
ConcReqs ==
    [fn : {"cpufreq_max_limit_store", "cpufreq_min_limit_store"},
     buf : {[n |-> IF v < 0 THEN 3 ELSE 2, nconv |-> 1, val |-> v] :
              v \in {w \in ReqVals : w >= -1}}]

\* thread t goes to l, leaving the shared variables as given
Step(t, l, mx, mn, rp, q, nt, rg) ==
    /\ pc' = [pc EXCEPT ![t] = l]
    /\ reg' = [reg EXCEPT ![t] = rg]
    /\ cpufreq_max_limit_val' = mx
    /\ cpufreq_min_limit_val' = mn
    /\ min_replacement' = rp
    /\ qos' = q
    /\ notified' = nt
    /\ UNCHANGED <<table, table_ready, online, last, req, base>>

\* thread t goes to l and changes no shared variable
Goto(t, l, rg) ==
    Step(t, l, cpufreq_max_limit_val, cpufreq_min_limit_val, min_replacement,
         qos, notified, rg)

\* thread t enters its for_each_online_cpu loop and goes on at l after it
Loop(after) == [todo |-> online, after |-> after]

\* Both threads enter their stores.
BeginStores ==
    /\ \A t \in Threads : pc[t] = "idle"
    /\ table_ready
    /\ \E r \in [Threads -> ConcReqs] : req' = r
    /\ pc' = [t \in Threads |-> "start"]
    /\ base' = Arb
    /\ notified' = {}
    /\ last' = Called("concurrent stores", NoBuf, 0, "", <<>>, FALSE)
    /\ UNCHANGED <<cpufreq_max_limit_val, cpufreq_min_limit_val, min_replacement,
                   qos, table, table_ready, online, reg>>

\* lines 483-488 / 556-561 and 508 / 576: sscanf, the unlock test and
\* get_cpufreq_level, which read no shared variable
T_Start(t) ==
    /\ pc[t] = "start"
    /\ LET b == req[t].buf
           isMax == req[t].fn = "cpufreq_max_limit_store"
       IN  IF b.nconv # 1 THEN Goto(t, "done", NoReg)
           ELSE IF b.val = -1
           THEN Goto(t, IF isMax THEN "max_unlock_test" ELSE "min_unlock_test", NoReg)
           ELSE IF get_cpufreq_level(b.val, IF isMax THEN DVFS_MAX_LOCK_REQ
                                            ELSE DVFS_MIN_LOCK_REQ).ret = VALID_LEVEL
           THEN Goto(t, IF isMax THEN "max_lock_write" ELSE "min_lock_write", NoReg)
           ELSE Goto(t, "done", NoReg)

\* line 489: if (cpufreq_max_limit_val != -1)
T_MaxUnlockTest(t) ==
    /\ pc[t] = "max_unlock_test"
    /\ IF cpufreq_max_limit_val # -1
       THEN Goto(t, "max_unlock_write", NoReg)
       ELSE Goto(t, "done", NoReg)

\* line 491: cpufreq_max_limit_val = -1, then the loop of lines 494-495
T_MaxUnlockWrite(t) ==
    /\ pc[t] = "max_unlock_write"
    /\ Step(t, "update", -1, cpufreq_min_limit_val, min_replacement, qos,
            notified, Loop("max_unlock_test2"))

\* line 498: if (min_replacement && cpufreq_min_limit_val != -1)
T_MaxUnlockTest2(t) ==
    /\ pc[t] = "max_unlock_test2"
    /\ IF min_replacement # 0 /\ cpufreq_min_limit_val # -1
       THEN Goto(t, "max_unlock_push", NoReg)
       ELSE Goto(t, "done", NoReg)

\* lines 499-500: prcmu_qos_update_requirement(.., cpufreq_min_limit_val)
T_MaxUnlockPush(t) ==
    /\ pc[t] = "max_unlock_push"
    /\ Step(t, "max_unlock_clear", cpufreq_max_limit_val, cpufreq_min_limit_val,
            min_replacement, cpufreq_min_limit_val, notified, NoReg)

\* line 502: min_replacement = 0
T_MaxUnlockClear(t) ==
    /\ pc[t] = "max_unlock_clear"
    /\ Step(t, "done", cpufreq_max_limit_val, cpufreq_min_limit_val, 0, qos,
            notified, NoReg)

\* line 510: cpufreq_max_limit_val = val
T_MaxLockWrite(t) ==
    /\ pc[t] = "max_lock_write"
    /\ Step(t, "max_lock_test", req[t].buf.val, cpufreq_min_limit_val,
            min_replacement, qos, notified, NoReg)

\* lines 513-514: if (cpufreq_min_limit_val != -1 &&
\*                    cpufreq_min_limit_val > cpufreq_max_limit_val)
T_MaxLockTest(t) ==
    /\ pc[t] = "max_lock_test"
    /\ IF cpufreq_min_limit_val # -1 /\ cpufreq_min_limit_val > cpufreq_max_limit_val
       THEN Goto(t, "max_lock_push", NoReg)
       ELSE Goto(t, "update", Loop("done"))

\* lines 521-522: prcmu_qos_update_requirement(.., cpufreq_max_limit_val)
T_MaxLockPush(t) ==
    /\ pc[t] = "max_lock_push"
    /\ Step(t, "max_lock_flag", cpufreq_max_limit_val, cpufreq_min_limit_val,
            min_replacement, cpufreq_max_limit_val, notified, NoReg)

\* line 524: min_replacement = 1, then the loop of lines 528-529
T_MaxLockFlag(t) ==
    /\ pc[t] = "max_lock_flag"
    /\ Step(t, "update", cpufreq_max_limit_val, cpufreq_min_limit_val, 1, qos,
            notified, Loop("done"))

\* The thread's loop calls cpufreq_update_policy for the next online CPU,
\* which runs the notifier up to the test of line 411 or, when that test
\* fails, to its end.
T_NotifierTest(t) ==
    /\ pc[t] = "update"
    /\ LET cpu == SetMin(reg[t].todo)
           rest == reg[t].todo \ {cpu}
           pmax_in == HighestValid(table)
           r == dvfs_cpufreq_notifier(CPUFREQ_ADJUST, pmax_in, cpufreq_max_limit_val)
       IN  IF table_ready /\ cpufreq_max_limit_val # -1
              /\ UGt(pmax_in, cpufreq_max_limit_val)
           THEN Goto(t, "update_set", reg[t])
           ELSE Step(t, IF rest = {} THEN reg[t].after ELSE "update",
                     cpufreq_max_limit_val, cpufreq_min_limit_val,
                     min_replacement, qos,
                     notified \cup {[event |-> CPUFREQ_ADJUST, cpu |-> cpu,
                                     pmax_in |-> pmax_in, pmax_out |-> r.max,
                                     ret |-> r.ret]},
                     IF rest = {} THEN NoReg ELSE [reg[t] EXCEPT !.todo = rest])

\* line 412: policy->max = cpufreq_max_limit_val
T_NotifierSet(t) ==
    /\ pc[t] = "update_set"
    /\ LET cpu == SetMin(reg[t].todo)
           rest == reg[t].todo \ {cpu}
       IN  Step(t, IF rest = {} THEN reg[t].after ELSE "update",
                cpufreq_max_limit_val, cpufreq_min_limit_val, min_replacement, qos,
                notified \cup {[event |-> CPUFREQ_ADJUST, cpu |-> cpu,
                                pmax_in |-> HighestValid(table),
                                pmax_out |-> cpufreq_max_limit_val,
                                ret |-> NOTIFY_DONE]},
                IF rest = {} THEN NoReg ELSE [reg[t] EXCEPT !.todo = rest])

\* line 562: if (cpufreq_min_limit_val != -1)
T_MinUnlockTest(t) ==
    /\ pc[t] = "min_unlock_test"
    /\ IF cpufreq_min_limit_val # -1
       THEN Goto(t, "min_unlock_write", NoReg)
       ELSE Goto(t, "done", NoReg)

\* line 564: cpufreq_min_limit_val = -1
T_MinUnlockWrite(t) ==
    /\ pc[t] = "min_unlock_write"
    /\ Step(t, "min_unlock_push", cpufreq_max_limit_val, -1, min_replacement, qos,
            notified, NoReg)

\* lines 567-568: prcmu_qos_update_requirement(.., PRCMU_QOS_DEFAULT_VALUE)
T_MinUnlockPush(t) ==
    /\ pc[t] = "min_unlock_push"
    /\ Step(t, "min_unlock_clear", cpufreq_max_limit_val, cpufreq_min_limit_val,
            min_replacement, PRCMU_QOS_DEFAULT_VALUE, notified, NoReg)

\* line 571: min_replacement = 0
T_MinUnlockClear(t) ==
    /\ pc[t] = "min_unlock_clear"
    /\ Step(t, "done", cpufreq_max_limit_val, cpufreq_min_limit_val, 0, qos,
            notified, NoReg)

\* line 578: cpufreq_min_limit_val = val
T_MinLockWrite(t) ==
    /\ pc[t] = "min_lock_write"
    /\ Step(t, "min_lock_test", cpufreq_max_limit_val, req[t].buf.val,
            min_replacement, qos, notified, NoReg)

\* lines 581-582: if (cpufreq_max_limit_val != -1 &&
\*                    cpufreq_min_limit_val > cpufreq_max_limit_val)
T_MinLockTest(t) ==
    /\ pc[t] = "min_lock_test"
    /\ IF cpufreq_max_limit_val # -1 /\ cpufreq_min_limit_val > cpufreq_max_limit_val
       THEN Goto(t, "min_lock_push_max", NoReg)
       ELSE Goto(t, "min_lock_push_min", NoReg)

\* lines 589-590: prcmu_qos_update_requirement(.., cpufreq_max_limit_val)
T_MinLockPushMax(t) ==
    /\ pc[t] = "min_lock_push_max"
    /\ Step(t, "min_lock_flag", cpufreq_max_limit_val, cpufreq_min_limit_val,
            min_replacement, cpufreq_max_limit_val, notified, NoReg)

\* line 592: min_replacement = 1
T_MinLockFlag(t) ==
    /\ pc[t] = "min_lock_flag"
    /\ Step(t, "done", cpufreq_max_limit_val, cpufreq_min_limit_val, 1, qos,
            notified, NoReg)

\* lines 595-596: prcmu_qos_update_requirement(.., cpufreq_min_limit_val)
T_MinLockPushMin(t) ==
    /\ pc[t] = "min_lock_push_min"
    /\ Step(t, "done", cpufreq_max_limit_val, cpufreq_min_limit_val,
            min_replacement, cpufreq_min_limit_val, notified, NoReg)

\* Both stores have returned.
EndStores ==
    /\ \A t \in Threads : pc[t] = "done"
    /\ pc' = [t \in Threads |-> "idle"]
    /\ req' = [t \in Threads |-> NoReq]
    /\ UNCHANGED <<cpufreq_max_limit_val, cpufreq_min_limit_val, min_replacement,
                   qos, table, table_ready, online, notified, last, reg, base>>

ConcNext ==
    \/ TableGetAttr
    \/ BeginStores
    \/ EndStores
    \/ \E t \in Threads :
          \/ T_Start(t)
          \/ T_MaxUnlockTest(t)
          \/ T_MaxUnlockWrite(t)
          \/ T_MaxUnlockTest2(t)
          \/ T_MaxUnlockPush(t)
          \/ T_MaxUnlockClear(t)
          \/ T_MaxLockWrite(t)
          \/ T_MaxLockTest(t)
          \/ T_MaxLockPush(t)
          \/ T_MaxLockFlag(t)
          \/ T_NotifierTest(t)
          \/ T_NotifierSet(t)
          \/ T_MinUnlockTest(t)
          \/ T_MinUnlockWrite(t)
          \/ T_MinUnlockPush(t)
          \/ T_MinUnlockClear(t)
          \/ T_MinLockWrite(t)
          \/ T_MinLockTest(t)
          \/ T_MinLockPushMax(t)
          \/ T_MinLockFlag(t)
          \/ T_MinLockPushMin(t)

\* the plain tables: full length, no sentinel entry
InitConc ==
    /\ Init
    /\ Len(table) = MaxTableLen
    /\ \A i \in 1..Len(table) : table[i] # CPUFREQ_ENTRY_INVALID

SpecConc == InitConc /\ [][ConcNext]_vars

(* ------------------------------ properties ----------------------------- *)
\* the Unlocked state: what lines 327-329 and pm_init leave
UnlockedArb == [max |-> -1, min |-> -1, repl |-> 0, qos |-> PRCMU_QOS_DEFAULT_VALUE]
ArbOf(o) == [max |-> o.max, min |-> o.min, repl |-> o.repl, qos |-> o.qos]
\* the text of the decimal numeral of v
BufOf(v) == [n |-> IF v < 0 THEN 3 ELSE 2, nconv |-> 1, val |-> v]
\* the last step was request_max(v) / request_min(v)
RequestedMax(v) == last.fn = "cpufreq_max_limit_store" /\ last.buf = BufOf(v)
RequestedMin(v) == last.fn = "cpufreq_min_limit_store" /\ last.buf = BufOf(v)
\* lock requests: every request value but the unlock request
LockVals == ReqVals \ {-1}
\* the frequency requests of the specification
FreqVals == {v \in ReqVals : v >= 0}
Resolves(v, req_type) == get_cpufreq_level(v, req_type).ret = VALID_LEVEL
Resolved(v, req_type) == get_cpufreq_level(v, req_type).level
UMin(a, b) == IF ULt(a, b) THEN a ELSE b
\* the plain case: a table without sentinel entries, and bounds that are
\* unlocked or hold a frequency request, now and before the last call
NoSentinel(t) == \A i \in 1..Len(t) : t[i] # CPUFREQ_ENTRY_INVALID
Plain ==
    /\ NoSentinel(table)
    /\ cpufreq_max_limit_val >= -1 /\ cpufreq_min_limit_val >= -1
    /\ last.pre.max >= -1 /\ last.pre.min >= -1

\* request_min(a) then request_max(b), both accepted, starting in Unlocked
AppliedMinThenMax(a, b) ==
    LET o1 == min_limit_store(UnlockedArb, BufOf(a))
    IN  /\ o1.branch = "lock"
        /\ RequestedMax(b) /\ last.branch = "lock"
        /\ last.pre = ArbOf(o1)

\* request_max(b) then request_min(a), both accepted, starting in Unlocked
AppliedMaxThenMin(a, b) ==
    LET o1 == max_limit_store(UnlockedArb, BufOf(b))
    IN  /\ o1.branch = "lock"
        /\ RequestedMin(a) /\ last.branch = "lock"
        /\ last.pre = ArbOf(o1)

\* C1 as stated: for frequency requests (a, b) = (min_req, max_req) whose
\* table-resolved values satisfy resolved(a) > resolved(b), applying
\* request_min(a) and request_max(b) from Unlocked in either order ends with
\* min_replacement set and the QoS requirement at the resolved value of b.
\* (Stated for the plain case, so that a violation rests on no sentinel
\* entry and no request below -1.)
C1_PriorityResolved ==
    \A a, b \in FreqVals :
        ( /\ Plain
          /\ Resolves(a, DVFS_MIN_LOCK_REQ) /\ Resolves(b, DVFS_MAX_LOCK_REQ)
          /\ UGt(Resolved(a, DVFS_MIN_LOCK_REQ), Resolved(b, DVFS_MAX_LOCK_REQ))
          /\ (AppliedMinThenMax(a, b) \/ AppliedMaxThenMin(a, b)) )
        => (min_replacement = 1 /\ qos = Resolved(b, DVFS_MAX_LOCK_REQ))

\* C1 amended: for lock requests (a, b) = (min_req, max_req) that both
\* resolve and whose requested values satisfy a > b, applying request_min(a)
\* and request_max(b) from Unlocked in either order ends with both values
\* stored as requested, min_replacement set and the QoS requirement at the
\* requested value b.  (In AppliedMinThenMax(a, b) the pair is the min value
\* before the last call and the last call's value, in AppliedMaxThenMin(a, b)
\* the last call's value and the max value before it.)
PriorityHolds(a, b) ==
    /\ min_replacement = 1
    /\ qos = b
    /\ last.pushed = <<b>>
    /\ cpufreq_max_limit_val = b
    /\ cpufreq_min_limit_val = a

C1_PriorityRequested ==
    /\ LET a == last.pre.min
           b == last.buf.val
       IN  (a \in LockVals /\ b \in LockVals /\ a > b /\ AppliedMinThenMax(a, b))
           => PriorityHolds(a, b)
    /\ LET a == last.buf.val
           b == last.pre.max
       IN  (a \in LockVals /\ b \in LockVals /\ a > b /\ AppliedMaxThenMin(a, b))
           => PriorityHolds(a, b)

C1_Witness ==
    LET a == last.buf.val
        b == last.pre.max
    IN  /\ a \in FreqVals /\ b \in FreqVals
        /\ a > b
        /\ AppliedMaxThenMin(a, b)
        /\ Resolved(b, DVFS_MAX_LOCK_REQ) # b

\* BothReplaced: both bounds locked, min > max, replacement flag set
BothReplaced(s) == s.max # -1 /\ s.min # -1 /\ s.min > s.max /\ s.repl = 1

MaxUnlockedFromBothReplaced == RequestedMax(-1) /\ BothReplaced(last.pre)

\* C2 as stated: request_max(-1) from a BothReplaced state leaves max
\* unlocked and min_replacement clear, and the QoS requirement at the
\* table-resolved min value.  (Stated for the plain case.)
C2_RestorationResolved ==
    (MaxUnlockedFromBothReplaced /\ Plain)
    => /\ cpufreq_max_limit_val = -1
       /\ min_replacement = 0
       /\ qos = Resolved(last.pre.min, DVFS_MIN_LOCK_REQ)

\* C2 amended: request_max(-1) from a BothReplaced state leaves max unlocked
\* and min_replacement clear, keeps the min value, and pushes exactly the
\* stored min value (the value requested, not its table resolution) onto
\* the QoS channel.
C2_RestorationStored ==
    MaxUnlockedFromBothReplaced
    => /\ cpufreq_max_limit_val = -1
       /\ min_replacement = 0
       /\ cpufreq_min_limit_val = last.pre.min
       /\ last.pushed = <<last.pre.min>>
       /\ qos = last.pre.min

C2_Witness ==
    /\ MaxUnlockedFromBothReplaced
    /\ Resolved(last.pre.min, DVFS_MIN_LOCK_REQ) # last.pre.min

\* C3 as stated: after request_max(v), v >= 0 resolving against the table,
\* the stored max value is the table lookup AtOrBelow(v); after
\* request_max(-1) the stored max value is -1.  (Stated for the plain case.)
C3_StoresResolved ==
    /\ \A v \in FreqVals :
          (RequestedMax(v) /\ Resolves(v, DVFS_MAX_LOCK_REQ) /\ Plain)
          => cpufreq_max_limit_val = Resolved(v, DVFS_MAX_LOCK_REQ)
    /\ RequestedMax(-1) => cpufreq_max_limit_val = -1

\* C3 amended: after request_max(v), v >= 0 resolving against the table, the
\* stored max value is v itself, the value requested; after request_max(-1)
\* the stored max value is -1.
C3_StoresRequested ==
    /\ \A v \in FreqVals :
          (RequestedMax(v) /\ Resolves(v, DVFS_MAX_LOCK_REQ))
          => cpufreq_max_limit_val = v
    /\ RequestedMax(-1) => cpufreq_max_limit_val = -1

C3_Witness ==
    \E v \in FreqVals :
        /\ RequestedMax(v) /\ Resolves(v, DVFS_MAX_LOCK_REQ)
        /\ Resolved(v, DVFS_MAX_LOCK_REQ) # v
        /\ last.pre.max # v

\* C4: request_min(v) with v above the table's highest valid frequency is
\* rejected: the min value, min_replacement and the QoS requirement are
\* left as they were and nothing is pushed.
C4_MinAboveTableRejected ==
    \A v \in FreqVals :
        (RequestedMin(v) /\ v > HighestValid(table))
        => /\ cpufreq_min_limit_val = last.pre.min
           /\ min_replacement = last.pre.repl
           /\ qos = last.pre.qos
           /\ last.pushed = <<>>

\* C5 (Invariant A): whenever min_replacement is set, the max bound is
\* locked and the QoS requirement equals the max value.  (Stated for the
\* plain case, so that a violation rests on no sentinel entry and no
\* request below -1.)
C5_InvariantA ==
    (min_replacement = 1 /\ Plain)
    => (cpufreq_max_limit_val # -1 /\ qos = cpufreq_max_limit_val)

\* C6 (Invariant B): between calls, whenever both bounds are locked and the
\* min value is greater than the max value, min_replacement is set.
C6_InvariantB ==
    ( /\ cpufreq_min_limit_val # -1
      /\ cpufreq_max_limit_val # -1
      /\ cpufreq_min_limit_val > cpufreq_max_limit_val )
    => min_replacement = 1

C6_Witness ==
    /\ cpufreq_min_limit_val # -1
    /\ cpufreq_max_limit_val # -1
    /\ cpufreq_min_limit_val > cpufreq_max_limit_val
    /\ last.branch = "lock"
    /\ last.pre.repl = 0

\* C7 as stated: each stored bound is unlocked or a valid (non-sentinel)
\* frequency of the table.  (Stated for the plain case.)
C7_StoredInTable ==
    Plain
    => /\ cpufreq_max_limit_val = -1 \/ cpufreq_max_limit_val \in ValidFreqs(table)
       /\ cpufreq_min_limit_val = -1 \/ cpufreq_min_limit_val \in ValidFreqs(table)

\* C7 amended: each stored bound is unlocked or a requested value that the
\* table resolves: some table entry is <= the stored max value, some table
\* entry (the invalid sentinel counts) is >= the stored min value, both as
\* unsigned int.  The stored value need not be an entry of the table.
C7_StoredResolves ==
    /\ \/ cpufreq_max_limit_val = -1
       \/ \E i \in 1..Len(table) : ULe(table[i], cpufreq_max_limit_val)
    /\ \/ cpufreq_min_limit_val = -1
       \/ \E i \in 1..Len(table) : UGe(table[i], cpufreq_min_limit_val)

C7_Witness ==
    /\ cpufreq_max_limit_val # -1
    /\ cpufreq_max_limit_val \notin ValidFreqs(table)
    /\ cpufreq_min_limit_val # -1
    /\ cpufreq_min_limit_val \notin ValidFreqs(table)

\* the two writer threads are inside request_max calls with distinct values
\* that both resolve against the table
ConcurrentMaxRequests ==
    /\ \A t \in Threads :
          /\ req[t].fn = "cpufreq_max_limit_store"
          /\ req[t].buf.nconv = 1
          /\ req[t].buf.val >= 0
          /\ Resolves(req[t].buf.val, DVFS_MAX_LOCK_REQ)
    /\ req[1].buf.val # req[2].buf.val

\* what the two requests leave when one runs to its end before the other,
\* and what each of them leaves when it runs alone
SerialOutcomes ==
    {ArbOf(max_limit_store(ArbOf(max_limit_store(base, req[o[1]].buf)), req[o[2]].buf)) :
       o \in {<<1, 2>>, <<2, 1>>}}
    \cup {ArbOf(max_limit_store(base, req[t].buf)) : t \in Threads}

\* the ceilings the notifier leaves when it runs as a whole against a max
\* value the stores held before, between or after the two requests
WholeCeilings(pmax_in) ==
    {dvfs_cpufreq_notifier(CPUFREQ_ADJUST, pmax_in, l).max :
       l \in {base.max} \cup {req[t].buf.val : t \in Threads}}

C8_LastWriterWins ==
    (ConcurrentMaxRequests /\ \A t \in Threads : pc[t] = "done")
    => Arb \in SerialOutcomes

C8_NoTornObservation ==
    ConcurrentMaxRequests
    => \A n \in notified : n.pmax_out \in WholeCeilings(n.pmax_in)

\* C8: concurrent request_max calls with distinct valid values leave max,
\* min_replacement and the QoS requirement as one of the requests leaves
\* them when it runs last, and every policy republished meanwhile has the
\* ceiling a notifier call gets from one whole state of the stores.
C8_ConcurrentMax ==
    /\ C8_LastWriterWins
    /\ C8_NoTornObservation

\* C9: request_max(-1) while max is unlocked is accepted and does nothing:
\* min, max, min_replacement and the QoS requirement are unchanged, nothing
\* is pushed, no policy is republished.
C9_UnlockIdempotent ==
    (RequestedMax(-1) /\ last.pre.max = -1)
    => /\ Arb = last.pre
       /\ last.pushed = <<>>
       /\ ~last.update
       /\ notified = {}
       /\ last.ret = last.buf.n

C9_Witness ==
    /\ RequestedMax(-1) /\ last.pre.max = -1
    /\ last.pre.min # -1

\* C10: with the table available, a CPUFREQ_ADJUST call leaves the policy's
\* ceiling at min(incoming ceiling, f) when max is locked at f and at the
\* table's highest valid frequency when max is unlocked; a call with any
\* other event leaves the ceiling as it came.
C10_NotifierCeiling ==
    \A r \in notified :
        table_ready
        => IF r.event # CPUFREQ_ADJUST THEN r.pmax_out = r.pmax_in
           ELSE IF cpufreq_max_limit_val # -1
                THEN r.pmax_out = UMin(r.pmax_in, cpufreq_max_limit_val)
                ELSE r.pmax_out = HighestValid(table)

\* the last call was a lock request for a frequency v >= 0 on either file
FreqRequested ==
    /\ last.fn \in {"cpufreq_max_limit_store", "cpufreq_min_limit_store"}
    /\ last.buf.nconv = 1
    /\ last.buf.val >= 0

\* the table does not resolve the last call's request (it has no entry on
\* the side the request looks at, or it is not available)
Unresolvable ==
    ~Resolves(last.buf.val,
              IF last.fn = "cpufreq_max_limit_store" THEN DVFS_MAX_LOCK_REQ
              ELSE DVFS_MIN_LOCK_REQ)

NonConflictingMin ==
    /\ FreqRequested
    /\ last.fn = "cpufreq_min_limit_store"
    /\ Resolves(last.buf.val, DVFS_MIN_LOCK_REQ)
    /\ \/ last.pre.max = -1
       \/ ULe(Resolved(last.buf.val, DVFS_MIN_LOCK_REQ), last.pre.max)

C12_PushesResolved ==
    (NonConflictingMin /\ Plain)
    => /\ last.pushed = <<Resolved(last.buf.val, DVFS_MIN_LOCK_REQ)>>
       /\ qos = Resolved(last.buf.val, DVFS_MIN_LOCK_REQ)

C12_FlagCleared ==
    (NonConflictingMin /\ Plain) => min_replacement = 0

\* C12: an accepted request_min(v), v >= 0, that does not conflict with the
\* max bound pushes the table-resolved AtOrAbove(v) onto the QoS channel and
\* leaves min_replacement clear, whatever it was before.  (Stated for the
\* plain case.)
C12_NonConflictingMin ==
    /\ C12_PushesResolved
    /\ C12_FlagCleared

\* The integer a reader of an endpoint gets from the text shown: the decimal
\* numeral before the newline.
DigitVal(c) == CHOOSE d \in 0..9 : DigitChars[d + 1] = c

RECURSIVE DecVal(_)
DecVal(ds) ==
    IF ds = <<>> THEN 0
    ELSE DecVal(SubSeq(ds, 1, Len(ds) - 1)) * 10 + DigitVal(ds[Len(ds)])

ReadBack(text) ==
    LET body == SubSeq(text, 1, Len(text) - 1)
    IN  IF body[1] = "-" THEN -DecVal(SubSeq(body, 2, Len(body)))
        ELSE DecVal(body)

\* a well-formed answer of an endpoint: a decimal numeral and a newline
IsNumeralLine(text) ==
    /\ Len(text) >= 2
    /\ text[Len(text)] = "\n"
    /\ LET body == SubSeq(text, 1, Len(text) - 1)
           ds == IF body[1] = "-" THEN SubSeq(body, 2, Len(body)) ELSE body
       IN  /\ ds # <<>>
           /\ \A i \in 1..Len(ds) : \E d \in 0..9 : DigitChars[d + 1] = ds[i]

\* what a read of each endpoint returns in the current state
ShownMax == max_limit_show(Arb)
ShownMin == min_limit_show(Arb)

\* the last call was a store on the file fn that took the given branch
Took(fn, branch) == last.fn = fn /\ last.branch = branch

\* C13: a read of the max-limit (min-limit) endpoint returns -1 when that
\* bound is unlocked and otherwise the value v of the last accepted lock
\* request on that bound, as requested and not as the table resolves it:
\* the text read is a numeral line; it reads -1 when the bound is unlocked;
\* after an accepted lock request it reads the request's value; after an
\* unlock it reads -1; any other call leaves what is read as it was; and a
\* read returns that text and its length.
C13_ShowsRequested ==
    /\ IsNumeralLine(ShownMax) /\ IsNumeralLine(ShownMin)
    /\ cpufreq_max_limit_val = -1 => ShownMax = <<"-", "1", "\n">>
    /\ cpufreq_min_limit_val = -1 => ShownMin = <<"-", "1", "\n">>
    /\ Took("cpufreq_max_limit_store", "lock") => ReadBack(ShownMax) = last.buf.val
    /\ Took("cpufreq_min_limit_store", "lock") => ReadBack(ShownMin) = last.buf.val
    /\ Took("cpufreq_max_limit_store", "unlock") => ReadBack(ShownMax) = -1
    /\ Took("cpufreq_min_limit_store", "unlock") => ReadBack(ShownMin) = -1
    /\ ~(Took("cpufreq_max_limit_store", "lock") \/ Took("cpufreq_max_limit_store", "unlock"))
       => ShownMax = max_limit_show(last.pre)
    /\ ~(Took("cpufreq_min_limit_store", "lock") \/ Took("cpufreq_min_limit_store", "unlock"))
       => ShownMin = min_limit_show(last.pre)
    /\ last.fn = "cpufreq_max_limit_show"
       => (last.out = ShownMax /\ last.ret = Len(last.out) /\ Arb = last.pre)
    /\ last.fn = "cpufreq_min_limit_show"
       => (last.out = ShownMin /\ last.ret = Len(last.out) /\ Arb = last.pre)

\* a read of the max endpoint while max holds a request that is no table
\* entry: the text is the request, not the level it resolves to
C13_Witness ==
    /\ last.fn = "cpufreq_max_limit_show"
    /\ cpufreq_max_limit_val > 0
    /\ NoSentinel(table)
    /\ Resolved(cpufreq_max_limit_val, DVFS_MAX_LOCK_REQ) # cpufreq_max_limit_val
    /\ ReadBack(last.out) = cpufreq_max_limit_val

\* C14: after any sequence of request_min / request_max calls from the
\* Unlocked state, min_replacement is set only if both bounds are locked and
\* min > max.  (Stated for the plain case.)
C14_ReplacedOnlyInConflict ==
    (min_replacement # 0 /\ Plain)
    => /\ cpufreq_max_limit_val # -1
       /\ cpufreq_min_limit_val # -1
       /\ cpufreq_min_limit_val > cpufreq_max_limit_val

\* one writer thread is inside a request_min call, the other inside a
\* request_max call
ConcurrentMinMax ==
    /\ {req[t].fn : t \in Threads} = {"cpufreq_min_limit_store", "cpufreq_max_limit_store"}
    /\ \A t \in Threads : req[t].buf.nconv = 1

\* what the store r leaves when it runs as a whole on arbitration state s
StoreAlone(r, s) ==
    IF r.fn = "cpufreq_max_limit_store" THEN ArbOf(max_limit_store(s, r.buf))
    ELSE ArbOf(min_limit_store(s, r.buf))

\* what the two stores leave when one runs to its end before the other
SerialOrders ==
    {StoreAlone(req[o[2]], StoreAlone(req[o[1]], base)) : o \in {<<1, 2>>, <<2, 1>>}}

\* C15: concurrent request_min and request_max calls are atomic with respect
\* to each other: when both have returned, min, max, min_replacement and the
\* QoS requirement are what the two calls leave in one of the two serial
\* orders, and it is not the case that min > max while the QoS requirement
\* holds the min value.
C15_MinMaxAtomic ==
    (ConcurrentMinMax /\ \A t \in Threads : pc[t] = "done")
    => /\ Arb \in SerialOrders
       /\ ~ ( /\ cpufreq_min_limit_val # -1 /\ cpufreq_max_limit_val # -1
              /\ cpufreq_min_limit_val > cpufreq_max_limit_val
              /\ qos = cpufreq_min_limit_val )

\* the last call was request_max(v), v >= 0, accepted, or a request_max(-1)
\* that unlocked a locked max
MaxChanged ==
    \/ Took("cpufreq_max_limit_store", "lock") /\ last.buf.val >= 0
    \/ Took("cpufreq_max_limit_store", "unlock")

\* the policy of cpu has been passed through the notifier and has the
\* ceiling the current max value asks for
Reclamped(cpu) ==
    \E n \in notified :
        /\ n.cpu = cpu
        /\ n.event = CPUFREQ_ADJUST
        /\ IF cpufreq_max_limit_val # -1
           THEN ULe(n.pmax_out, cpufreq_max_limit_val)
           ELSE n.pmax_out = HighestValid(table)

\* C16: every accepted request_max lock and every request_max(-1) that
\* unlocks republishes the policy of every online CPU, so that each online
\* CPU's ceiling is re-clamped against the new max value: at most max when
\* locked, the table's highest frequency when unlocked.  The store calls
\* cpufreq_update_policy itself, so the re-clamping is done when it returns.
C16_RepublishReclamps ==
    MaxChanged
    => /\ last.update
       /\ \A cpu \in online : Reclamped(cpu)

\* C17: request_min(-1) while min is locked leaves min unlocked, pushes the
\* default value onto the QoS channel, clears min_replacement and leaves the
\* max value as it was; while min is unlocked it changes nothing and pushes
\* nothing.
C17_MinUnlock ==
    /\ (RequestedMin(-1) /\ last.pre.min # -1)
       => /\ cpufreq_min_limit_val = -1
          /\ last.pushed = <<PRCMU_QOS_DEFAULT_VALUE>>
          /\ qos = PRCMU_QOS_DEFAULT_VALUE
          /\ min_replacement = 0
          /\ cpufreq_max_limit_val = last.pre.max
    /\ (RequestedMin(-1) /\ last.pre.min = -1)
       => /\ Arb = last.pre
          /\ last.pushed = <<>>

\* request_min(-1) arriving in a BothReplaced state
C17_Witness ==
    /\ RequestedMin(-1)
    /\ BothReplaced(last.pre)
    /\ cpufreq_max_limit_val # -1

\* the last step was a call of the policy notifier by the cpufreq core
NotifierCalled == last.fn = "dvfs_cpufreq_notifier"

\* C18: the policy notifier never modifies the arbitration state: whatever
\* the event and the policy, min, max, min_replacement and the QoS
\* requirement are as before the call, and the call pushes nothing and
\* republishes nothing.
C18_NotifierFrame ==
    NotifierCalled
    => /\ Arb = last.pre
       /\ last.pushed = <<>>
       /\ ~last.update

\* a CPUFREQ_ADJUST call that lowers a policy's ceiling while both bounds
\* are locked
C18_Witness ==
    /\ NotifierCalled
    /\ cpufreq_max_limit_val # -1 /\ cpufreq_min_limit_val # -1
    /\ \E n \in notified : n.event = CPUFREQ_ADJUST /\ n.pmax_out # n.pmax_in

\* C19: when the frequency table is unavailable during a CPUFREQ_ADJUST
\* call, the notifier skips clamping: the policy's ceiling and the
\* arbitration state are as before, and the call does not fail, returning
\* NOTIFY_DONE as every other path of the notifier does, so that the
\* notification chain goes on.
C19_TableUnavailableSkips ==
    (NotifierCalled /\ ~table_ready)
    => /\ Arb = last.pre
       /\ \A n \in notified :
             n.event = CPUFREQ_ADJUST
             => (n.pmax_out = n.pmax_in /\ n.ret = NOTIFY_DONE)

\* C20: a request value below -1 is never accepted as a lock: request_min(v)
\* and request_max(v) with v < -1 leave min, max, min_replacement and the
\* QoS requirement as they were, so that each stored bound is -1 or
\* non-negative.
C20_BelowUnlockRejected ==
    /\ ( /\ last.fn \in {"cpufreq_max_limit_store", "cpufreq_min_limit_store"}
         /\ last.buf.nconv = 1
         /\ last.buf.val < -1 )
       => Arb = last.pre
    /\ cpufreq_max_limit_val >= -1
    /\ cpufreq_min_limit_val >= -1

====
